---- MODULE Spec2Model ----
(***************************************************************************)
(* Model of the OBI client agent (src/main.py, src/sync_service.py,        *)
(* src/models.py): the schema draft pipeline (scan, edit, publish), the    *)
(* SQL safety gate and the ephemeral query executor.                       *)
(*                                                                         *)
(* Seven specifications share the module:                                    *)
(*   Spec        the draft pipeline, one request at a time;                *)
(*   SpecExec    execute_query requests against the client database;       *)
(*   SpecGate    validate_sql_safety applied to each text of a bounded set;*)
(*   SpecReports the report store and its visibility filter;               *)
(*   SpecBoards  the report store together with the dashboard store;       *)
(*   SpecUrl     get_db_url_from_config applied to each descriptor of a    *)
(*               bounded set (src/config.py);                              *)
(*   SpecRace    two pipeline requests for one connection key in flight at *)
(*               the same time, interleaved at their await points.         *)
(***************************************************************************)
EXTENDS Integers, Sequences, FiniteSets, TLC

VARIABLES
    rows,       \* schema_drafts table: a set of rows (src/models.py SchemaDraft)
    nextId,     \* next autoincrement id of schema_drafts
    resp,       \* the response of the last pipeline request
    httpLog,    \* requests sent to the remote catalog by the last publish, in order
    sql,        \* SQL text given to the gate / to execute_query
    verdict,    \* result of validate_sql_safety on sql (SpecGate)
    engines,    \* client-database engines created so far, each with its disposed flag
    executed,   \* statements sent to the client database by the last execute request
    eresp,      \* the response of the last execute request
    reports,    \* reports table: a set of rows (src/models.py Report)
    dashboards, \* dashboards table: a set of rows (src/models.py Dashboard)
    deleted,    \* ids of the dashboards a delete_dashboard request has deleted
    rresp,      \* the last dashboard or report request and its response
    db_config,  \* connection descriptor given to get_db_url_from_config
    url,        \* what get_db_url_from_config returned for db_config
    sessions    \* the pipeline requests in flight, each with its own database session

vars == <<rows, nextId, resp, httpLog, sql, verdict, engines, executed, eresp,
         reports, dashboards, deleted, rresp, db_config, url, sessions>>

pipelineVars == <<rows, nextId, resp, httpLog>>
execVars == <<engines, executed, eresp>>
gateVars == <<sql, verdict>>
reportVars == <<reports, dashboards, deleted, rresp>>
urlVars == <<db_config, url>>
raceVars == <<sessions>>

(***************************************************************************)
(* Bounds                                                                  *)
(***************************************************************************)
\* longest SQL text, in chunks, given to the gate
MaxChunks == 3
\* longest SQL text, in chunks, given to execute_query
MaxExecChunks == 1
\* number of execute requests
MaxRequests == 3
\* longest table list a human edit supplies
MaxTables == 1
\* number of reports stored at a time
MaxReports == 1
\* number of dashboards stored at a time
MaxDashboards == 1
\* longest password of a connection descriptor
MaxPwLen == 2

(***************************************************************************)
(* Text: a Python str is a sequence of one-character strings.              *)
(***************************************************************************)
LowerChars == <<"a", "b", "c", "d", "e", "f", "g", "h", "i", "j", "k", "l", "m",
                "n", "o", "p", "q", "r", "s", "t", "u", "v", "w", "x", "y", "z">>
UpperChars == <<"A", "B", "C", "D", "E", "F", "G", "H", "I", "J", "K", "L", "M",
                "N", "O", "P", "Q", "R", "S", "T", "U", "V", "W", "X", "Y", "Z">>
DigitChars == <<"0", "1", "2", "3", "4", "5", "6", "7", "8", "9">>

Range(s) == {s[i] : i \in 1..Len(s)}

\* str.upper() on one character
UpperChar(c) ==
    IF \E i \in 1..Len(LowerChars) : LowerChars[i] = c
    THEN UpperChars[CHOOSE i \in 1..Len(LowerChars) : LowerChars[i] = c]
    ELSE c

\* str.upper()
Upper(s) == [i \in 1..Len(s) |-> UpperChar(s[i])]

\* the characters str.strip() removes
IsSpace(c) == c \in {" ", "\t", "\n"}

\* str.strip(): drop leading and trailing whitespace
Strip(s) ==
    LET keep == {i \in 1..Len(s) : ~IsSpace(s[i])}
    IN  IF keep = {} THEN <<>>
        ELSE LET lo == CHOOSE i \in keep : \A j \in keep : i <= j
                 hi == CHOOSE i \in keep : \A j \in keep : j <= i
             IN  SubSeq(s, lo, hi)

\* str.startswith(p)
StartsWith(s, p) == Len(s) >= Len(p) /\ SubSeq(s, 1, Len(p)) = p

\* p occurs in s at position i
OccursAt(s, p, i) == i >= 1 /\ i + Len(p) - 1 <= Len(s) /\ SubSeq(s, i, i + Len(p) - 1) = p

\* re.search of a literal pattern
Search(p, s) == \E i \in 1..Len(s) : OccursAt(s, p, i)

\* the regex class \w
IsWordChar(c) == c \in Range(LowerChars) \cup Range(UpperChars) \cup Range(DigitChars) \cup {"_"}

SearchWord_Substring(k, s) == Search(k, s)

\* re.search(rf'\b{k}\b', s) for a keyword k made of word characters: an occurrence
\* of k with no word character right before it and none right after it
SearchWord(k, s) ==
    \E i \in 1..Len(s) :
        /\ OccursAt(s, k, i)
        /\ (i = 1 \/ ~IsWordChar(s[i - 1]))
        /\ (i + Len(k) - 1 = Len(s) \/ ~IsWordChar(s[i + Len(k)]))

(***************************************************************************)
(* SQL safety gate (src/main.py lines 19-54)                               *)
(***************************************************************************)
KwSelect == <<"S", "E", "L", "E", "C", "T">>
KwWith == <<"W", "I", "T", "H">>

FORBIDDEN_KEYWORDS_NoDrop ==
    << <<"D", "E", "L", "E", "T", "E">>,
       <<"U", "P", "D", "A", "T", "E">>,
       <<"I", "N", "S", "E", "R", "T">>,
       <<"T", "R", "U", "N", "C", "A", "T", "E">>,
       <<"A", "L", "T", "E", "R">>,
       <<"G", "R", "A", "N", "T">>,
       <<"R", "E", "V", "O", "K", "E">>,
       <<"C", "R", "E", "A", "T", "E">>,
       <<"E", "X", "E", "C">> >>

FORBIDDEN_KEYWORDS ==
    << <<"D", "R", "O", "P">>,
       <<"D", "E", "L", "E", "T", "E">>,
       <<"U", "P", "D", "A", "T", "E">>,
       <<"I", "N", "S", "E", "R", "T">>,
       <<"T", "R", "U", "N", "C", "A", "T", "E">>,
       <<"A", "L", "T", "E", "R">>,
       <<"G", "R", "A", "N", "T">>,
       <<"R", "E", "V", "O", "K", "E">>,
       <<"C", "R", "E", "A", "T", "E">>,
       <<"E", "X", "E", "C">> >>

FORBIDDEN_PATTERNS_NoInlineComment == << <<";">>, <<"/", "*">> >>

FORBIDDEN_PATTERNS == << <<";">>, <<"-", "-">>, <<"/", "*">> >>

ShapeAllowed_Any(sql_normalized) == TRUE

\* line 41: the normalized text starts with SELECT or WITH
ShapeAllowed(sql_normalized) ==
    StartsWith(sql_normalized, KwSelect) \/ StartsWith(sql_normalized, KwWith)

Accepted == [status |-> 200, rule |-> "ok", which |-> <<>>]
Rejected(rule, which) == [status |-> 403, rule |-> rule, which |-> which]

validate_sql_safety_PatternsFirst(text) ==
    LET sql_normalized == Upper(Strip(text))
        hitK == {i \in 1..Len(FORBIDDEN_KEYWORDS) : SearchWord(FORBIDDEN_KEYWORDS[i], sql_normalized)}
        hitP == {i \in 1..Len(FORBIDDEN_PATTERNS) : Search(FORBIDDEN_PATTERNS[i], text)}
    IN  IF ~ShapeAllowed(sql_normalized)
        THEN Rejected("shape", <<>>)
        ELSE IF hitP # {}
        THEN Rejected("pattern", <<>>)
        ELSE IF hitK # {}
        THEN Rejected("keyword", FORBIDDEN_KEYWORDS[CHOOSE i \in hitK : \A j \in hitK : i <= j])
        ELSE Accepted

\* validate_sql_safety: the first rule that rejects decides the reason
validate_sql_safety(text) ==
    LET sql_normalized == Upper(Strip(text))
        hitK == {i \in 1..Len(FORBIDDEN_KEYWORDS) : SearchWord(FORBIDDEN_KEYWORDS[i], sql_normalized)}
        hitP == {i \in 1..Len(FORBIDDEN_PATTERNS) : Search(FORBIDDEN_PATTERNS[i], text)}
    IN  IF ~ShapeAllowed(sql_normalized)
        THEN Rejected("shape", <<>>)
        ELSE IF hitK # {}
        THEN Rejected("keyword", FORBIDDEN_KEYWORDS[CHOOSE i \in hitK : \A j \in hitK : i <= j])
        ELSE IF hitP # {}
        THEN Rejected("pattern", <<>>)
        ELSE Accepted

(***************************************************************************)
(* Inputs of the gate: texts built from chunks, and the worked examples.   *)
(***************************************************************************)
\* chunks without a deny-listed keyword
BaseChunks ==
    << <<"S", "E", "L", "E", "C", "T">>,
       <<"W", "i", "t", "h">>,
       <<" ">>,
       <<"_">>,
       <<"x">>,
       <<";">>,
       <<"-">>,
       <<"/">>,
       <<"*">> >>

\* the thirteen keywords of the specification's deny-list, in assorted letter case
KeywordChunks ==
    << <<"D", "R", "O", "P">>,
       <<"d", "e", "l", "e", "t", "e">>,
       <<"U", "p", "d", "a", "t", "e">>,
       <<"I", "N", "S", "E", "R", "T">>,
       <<"t", "r", "u", "n", "c", "a", "t", "e">>,
       <<"A", "l", "t", "e", "r">>,
       <<"G", "R", "A", "N", "T">>,
       <<"r", "e", "v", "o", "k", "e">>,
       <<"C", "r", "e", "a", "t", "e">>,
       <<"E", "X", "E", "C">>,
       <<"S", "H", "U", "T", "D", "O", "W", "N">>,
       <<"m", "e", "r", "g", "e">>,
       <<"C", "a", "l", "l">> >>

RECURSIVE Concat(_)
Concat(ss) == IF ss = <<>> THEN <<>> ELSE Head(ss) \o Concat(Tail(ss))

ChunkTexts(chunks, n) ==
    UNION {{Concat([i \in 1..m |-> chunks[f[i]]]) : f \in [1..m -> 1..Len(chunks)]} : m \in 0..n}

Examples ==
    { <<"U", "P", "D", "A", "T", "E", " ", "u", "s", "e", "r", "s", " ", "S", "E", "T", " ", "x", "=", "1">>,
      <<"S", "E", "L", "E", "C", "T", " ", "*", " ", "F", "R", "O", "M", " ", "u", "p", "d", "a", "t", "e", "d", "_", "a", "t", "_", "l", "o", "g">>,
      <<"S", "E", "L", "E", "C", "T", " ", "1", ";", " ", "D", "R", "O", "P", " ", "T", "A", "B", "L", "E", " ", "x">>,
      <<"W", "I", "T", "H", " ", "t", " ", "A", "S", " ", "(", "S", "E", "L", "E", "C", "T", " ", "1", ")", " ", "S", "E", "L", "E", "C", "T", " ", "*", " ", "F", "R", "O", "M", " ", "t">>,
      <<"S", "E", "L", "E", "C", "T", " ", "*", " ", "F", "R", "O", "M", " ", "u", "s", "e", "r", "s">> }

\* texts of at most n chunks of which exactly one is a keyword chunk
KeywordTexts(n) ==
    UNION { UNION { { a \o KeywordChunks[k] \o b :
                        a \in ChunkTexts(BaseChunks, i) \ ChunkTexts(BaseChunks, i - 1),
                        b \in ChunkTexts(BaseChunks, j) \ ChunkTexts(BaseChunks, j - 1),
                        k \in 1..Len(KeywordChunks) }
                    : j \in 0..(n - 1 - i) }
            : i \in 0..(n - 1) }

\* the texts given to the gate: at most n chunks, at most one of them a keyword
Texts(n) == ChunkTexts(BaseChunks, n) \cup KeywordTexts(n) \cup Examples

Pending == [status |-> 0, rule |-> "pending", which |-> <<>>]
NoResp == [op |-> "none", key |-> "", status |-> 0, phase |-> "none", errors |-> <<>>, draft_id |-> 0]

PipelineIdle == rows = {} /\ nextId = 1 /\ resp = NoResp /\ httpLog = <<>>
ExecIdle == engines = <<>> /\ executed = <<>> /\ eresp = Pending
GateIdle == sql = <<>> /\ verdict = Pending

\* a request to the dashboard and report endpoints and its response: status is 200 or
\* the status of the HTTPException, id the report_id or dashboard_id of the path,
\* data the ids of the rows a list request returned
NoListing == [op |-> "none", current_user |-> "", dashboard_id |-> 0, current_role |-> "",
              data |-> <<>>, status |-> 0, id |-> 0]
ReportsIdle == reports = {} /\ dashboards = {} /\ deleted = {} /\ rresp = NoListing

NoConfig == [type |-> <<>>, password |-> <<>>]
NoUrl == [raised |-> FALSE, scheme |-> <<>>, password |-> <<>>, driver |-> <<>>]
UrlIdle == db_config = NoConfig /\ url = NoUrl
RaceIdle == sessions = <<>>
OthersIdle == ReportsIdle /\ UrlIdle /\ RaceIdle

(***************************************************************************)
(* SpecGate: the gate applied to one text                                  *)
(***************************************************************************)
GateInit == sql \in Texts(MaxChunks) /\ verdict = Pending /\ PipelineIdle /\ ExecIdle /\ OthersIdle

Validate ==
    /\ verdict = Pending
    /\ verdict' = validate_sql_safety(sql)
    /\ UNCHANGED <<sql, pipelineVars, execVars, reportVars, urlVars, raceVars>>

GateNext == Validate

SpecGate == GateInit /\ [][GateNext]_vars

(***************************************************************************)
(* Draft pipeline: the environment                                         *)
(***************************************************************************)
\* connections.json: connection key -> dbname (settings.get_connections_config)
ConfiguredKeys == {"k1", "k2"}
dbname(k) == IF k = "k1" THEN "d1" ELSE "d2"

\* connection keys a request may name; "kx" is in no configuration
RequestKeys == ConfiguredKeys \cup {"kx"}

\* the tables inspector.get_table_names() lists for each client database
DbTables(k) == IF k = "k1" THEN <<"a", "b">> ELSE <<"a">>

\* ids the remote catalog may return for a table: the catalog keeps one id per table
\* name, or assigns a fresh one when it creates the table again
CatalogIds(table_name) ==
    IF table_name = <<"d1", "a">> THEN {1, 2}
    ELSE IF table_name = <<"d1", "b">> THEN {3}
    ELSE {4}

\* One entry of structure_json. table_name is the qualified name "{dbname}.{table}",
\* kept as the pair <<dbname, table>>. complete says that the entry carries the keys
\* table_name, definition and column_metadata: a scan always builds complete entries
\* (sync_service.py lines 66-70), a human edit stores whatever text it is given.
TableEntry(db, t, complete) == [table_name |-> <<db, t>>, complete |-> complete]

\* the entries a human edit may supply
EditEntries == {TableEntry("d1", "a", TRUE), TableEntry("d1", "b", FALSE)}

SeqsUpTo(S, n) == UNION {[1..m -> S] : m \in 0..n}

\* a human edit lists each table at most once
EditInputs == {s \in SeqsUpTo(EditEntries, MaxTables) : \A i, j \in 1..Len(s) : s[i] = s[j] => i = j}

\* cloud_refs_json of an edit body (SchemaDraftUpdate, Optional[str]): <<>> when
\* absent, <<m>> for the text of a map m
EditRefs == {<<>>, << [x \in {<<"d1", "a">>} |-> 2] >>}

\* answers of the remote catalog to one request
OkOutcome(id) == [kind |-> "ok", id |-> id]
\* non_2xx: a status outside [200, 201]; exception: requests.post raises, or the body
\* of a 2xx answer has no data.id and reading it raises (both reach the except clause)
FailOutcomes == {[kind |-> "non_2xx", id |-> 0], [kind |-> "exception", id |-> 0]}
\* answers to POST /api/schema-tables for one table
TableOutcomes(table_name) == {OkOutcome(id) : id \in CatalogIds(table_name)} \cup FailOutcomes
\* answers to POST /api/schemas: the schema id is used in the payloads only
SchemaOutcomes == {OkOutcome(1)} \cup FailOutcomes
\* one answer for each entry of a table list
OutcomeLists(schema_tables) ==
    {f \in [1..Len(schema_tables) -> UNION {TableOutcomes(schema_tables[i].table_name) : i \in 1..Len(schema_tables)}] :
        \A i \in 1..Len(schema_tables) : f[i] \in TableOutcomes(schema_tables[i].table_name)}

(***************************************************************************)
(* scan_specific_connection (src/sync_service.py lines 7-74)               *)
(***************************************************************************)
RECURSIVE ScanTables_AbortOnFailure(_, _, _, _)
ScanTables_AbortOnFailure(db, table_names, colFails, schema_data) ==
    IF table_names = <<>> THEN schema_data
    ELSE IF Head(table_names) \in colFails
         THEN schema_data
         ELSE ScanTables_AbortOnFailure(db, Tail(table_names), colFails,
                                        Append(schema_data, TableEntry(db, Head(table_names), TRUE)))

RECURSIVE ScanTables(_, _, _, _)
\* lines 32-71: one entry per table whose get_columns succeeded, in order
ScanTables(db, table_names, colFails, schema_data) ==
    IF table_names = <<>> THEN schema_data
    ELSE IF Head(table_names) \in colFails
         THEN ScanTables(db, Tail(table_names), colFails, schema_data)
         ELSE ScanTables(db, Tail(table_names), colFails,
                         Append(schema_data, TableEntry(db, Head(table_names), TRUE)))

\* the tables whose get_columns may raise: get_columns is called only for the tables
\* that get_table_names listed (none when the key is unknown or connecting failed)
ColumnFaults(connection_key, connectFails) ==
    IF connection_key \notin ConfiguredKeys \/ connectFails
    THEN {{}}
    ELSE SUBSET Range(DbTables(connection_key))

scan_specific_connection_EmptyOnFailure(connection_key, connectFails, colFails) ==
    IF connection_key \notin ConfiguredKeys \/ connectFails
    THEN [raised |-> FALSE, schema_data |-> <<>>]
    ELSE [raised |-> FALSE,
          schema_data |-> ScanTables(dbname(connection_key), DbTables(connection_key), colFails, <<>>)]

\* connectFails: building the url, the engine, the inspector or get_table_names raises
scan_specific_connection(connection_key, connectFails, colFails) ==
    IF connection_key \notin ConfiguredKeys
    THEN [raised |-> TRUE, schema_data |-> <<>>]
    ELSE IF connectFails
    THEN [raised |-> TRUE, schema_data |-> <<>>]
    ELSE [raised |-> FALSE,
          schema_data |-> ScanTables(dbname(connection_key), DbTables(connection_key), colFails, <<>>)]

(***************************************************************************)
(* push_schema_to_cloud (src/sync_service.py lines 76-152)                 *)
(***************************************************************************)
EmptyDict == [x \in {} |-> 0]
DictSet(d, k, v) == [x \in DOMAIN d \cup {k} |-> IF x = k THEN v ELSE d[x]]

\* a request as the log keeps it: its endpoint, the table it carries, how the catalog
\* answered ("ok", "non_2xx" or "exception") and the id of an "ok" answer to a table
\* request (0 otherwise)
SchemaRequest(outcome) == [kind |-> "schema", table_name |-> <<"", "">>, answer |-> outcome.kind, id |-> 0]
TableRequest(name, outcome) == [kind |-> "table", table_name |-> name, answer |-> outcome.kind, id |-> outcome.id]

SchemaPhaseFails_StatusIgnored(outcome) == outcome.kind = "exception"

\* lines 111-119: a status outside [200, 201], an exception of requests.post and a
\* body without data.id all end in the raise of line 119
SchemaPhaseFails(outcome) == outcome.kind # "ok"

ErrorsRaise_Never(errors) == FALSE

\* lines 146-147: a non-empty error list raises
ErrorsRaise(errors) == errors # <<>>

PushResult(raised, phase, cloud_refs, errors, log) ==
    [raised |-> raised, phase |-> phase, cloud_refs |-> cloud_refs, errors |-> errors, log |-> log]

RECURSIVE PushTables_StopAtFailure(_, _, _, _, _, _)
PushTables_StopAtFailure(schema_tables, outcomes, i, cloud_refs, errors, log) ==
    IF i > Len(schema_tables) \/ errors # <<>>
    THEN PushResult(ErrorsRaise(errors), "tables", cloud_refs, errors, log)
    ELSE IF ~schema_tables[i].complete
    THEN PushResult(TRUE, "payload", cloud_refs, errors, log)
    ELSE LET name == schema_tables[i].table_name
             sent == Append(log, TableRequest(name, outcomes[i]))
         IN  IF outcomes[i].kind = "ok"
             THEN PushTables_StopAtFailure(schema_tables, outcomes, i + 1,
                                           DictSet(cloud_refs, name, outcomes[i].id), errors, sent)
             ELSE PushTables_StopAtFailure(schema_tables, outcomes, i + 1,
                                           cloud_refs, Append(errors, name), sent)

RECURSIVE PushTables(_, _, _, _, _, _)
\* lines 125-147: the table loop from entry i on. Building the payload (lines 126-131)
\* is outside the try block: an entry lacking a key raises KeyError out of the loop.
\* A request that fails adds the table name to errors and the loop goes on.
PushTables(schema_tables, outcomes, i, cloud_refs, errors, log) ==
    IF i > Len(schema_tables)
    THEN PushResult(ErrorsRaise(errors), "tables", cloud_refs, errors, log)
    ELSE IF ~schema_tables[i].complete
    THEN PushResult(TRUE, "payload", cloud_refs, errors, log)
    ELSE LET name == schema_tables[i].table_name
             sent == Append(log, TableRequest(name, outcomes[i]))
         IN  IF outcomes[i].kind = "ok"
             THEN PushTables(schema_tables, outcomes, i + 1,
                             DictSet(cloud_refs, name, outcomes[i].id), errors, sent)
             ELSE PushTables(schema_tables, outcomes, i + 1,
                             cloud_refs, Append(errors, name), sent)

\* schemaOutcome: the catalog's answer to POST /api/schemas; outcomes[i]: its answer
\* to the POST /api/schema-tables for entry i, if that request is sent
push_schema_to_cloud(schema_tables, schemaOutcome, outcomes) ==
    LET log == << SchemaRequest(schemaOutcome) >>
    IN  IF SchemaPhaseFails(schemaOutcome)
        THEN PushResult(TRUE, "schema", EmptyDict, <<>>, log)
        ELSE PushTables(schema_tables, outcomes, 1, EmptyDict, <<>>, log)

(***************************************************************************)
(* Draft store and the handlers (src/main.py lines 107-171)                *)
(***************************************************************************)
DraftsOf_AnyKey(rs, k) == rs

\* select(SchemaDraft).where(connection_key == k)
DraftsOf(rs, k) == {r \in rs : r.connection_key = k}

scalar_one_or_none_AlwaysNone(found) == <<>>

\* result.scalar_one_or_none(): <<>> for None, <<row>> for the single row found
scalar_one_or_none(found) ==
    IF found = {} THEN <<>> ELSE << CHOOSE r \in found : TRUE >>

\* scalar_one_or_none raises MultipleResultsFound on more than one row
MultipleResultsFound(found) == Cardinality(found) > 1

\* models.py line 61: connection_key is unique; the INSERT of a second row fails
UniqueViolation(rs, k) == DraftsOf(rs, k) # {}

\* cloud_refs_json: <<>> for NULL, <<dict>> for the stored map
NewDraft(id, k, structure_json) ==
    [id |-> id, connection_key |-> k, structure_json |-> structure_json,
     cloud_refs_json |-> <<>>, is_synced |-> FALSE]

ScanUpdate_KeepSynced(draft, structure_json) ==
    [draft EXCEPT !.structure_json = structure_json]

ScanUpdate_Merge(draft, structure_json) ==
    [draft EXCEPT !.structure_json =
                      structure_json \o SelectSeq(draft.structure_json,
                                                  LAMBDA t : t \notin Range(structure_json)),
                  !.is_synced = FALSE]

\* main.py lines 123-124
ScanUpdate(draft, structure_json) ==
    [draft EXCEPT !.structure_json = structure_json, !.is_synced = FALSE]

EditUpdate_StoreRefs(draft, draft_data) ==
    [draft EXCEPT !.structure_json = draft_data.structure_json,
                  !.cloud_refs_json = draft_data.cloud_refs_json, !.is_synced = FALSE]

\* main.py lines 146-147: draft_data.cloud_refs_json is not read
EditUpdate(draft, draft_data) ==
    [draft EXCEPT !.structure_json = draft_data.structure_json, !.is_synced = FALSE]

PublishUpdate_FirstMapWins(draft, cloud_refs) ==
    [draft EXCEPT !.cloud_refs_json = IF draft.cloud_refs_json = <<>> THEN <<cloud_refs>> ELSE @,
                  !.is_synced = TRUE]

PublishUpdate_MergeMaps(draft, cloud_refs) ==
    LET old == IF draft.cloud_refs_json = <<>> THEN EmptyDict ELSE draft.cloud_refs_json[1]
    IN  [draft EXCEPT !.cloud_refs_json =
                          << [x \in DOMAIN old \cup DOMAIN cloud_refs |->
                                 IF x \in DOMAIN cloud_refs THEN cloud_refs[x] ELSE old[x]] >>,
                      !.is_synced = TRUE]

\* main.py lines 161-162
PublishUpdate(draft, cloud_refs) ==
    [draft EXCEPT !.cloud_refs_json = <<cloud_refs>>, !.is_synced = TRUE]

\* what a scan met: connectFails, and the tables whose get_columns raised
NoFaults == [connectFails |-> FALSE, colFails |-> {}]

\* The response of a request, with what the claims need of the request itself:
\*   supplied  <<s>> when a scan or an edit stored the table list s, else <<>>
\*   faults    what the scan of a scan request met
\*   carried   <<m>> when a failure response carries a map m of captured ids, else <<>>
\*   repeat    TRUE when a successful publish follows a successful publish of the
\*             same key to which the catalog gave the same answers
Response(op, k, status, phase, errors, draft_id) ==
    [op |-> op, key |-> k, status |-> status, phase |-> phase, errors |-> errors,
     draft_id |-> draft_id, supplied |-> <<>>, faults |-> NoFaults, carried |-> <<>>,
     repeat |-> FALSE]

\* sync_service.py lines 119 and 147, main.py line 171: the detail of the 500 response
\* is the text of the exception, "Fallo de red al crear esquema: ..." (phase "schema")
\* or "Errores en subida parcial: " followed by the joined error list (phase
\* "tables"); cloud_refs is a local of push_schema_to_cloud and is in neither.
PublishFailure(k, push) ==
    [Response("publish", k, 500, push.phase, push.errors, 0) EXCEPT !.carried = <<>>]

PipelineInit == PipelineIdle /\ ExecIdle /\ GateIdle /\ OthersIdle

\* POST /api/v1/schema/scan
scan_schema ==
    \E k \in RequestKeys, connectFails \in BOOLEAN : \E colFails \in ColumnFaults(k, connectFails) :
        LET scan == scan_specific_connection(k, connectFails, colFails)
            found == DraftsOf(rows, k)
            draft == scalar_one_or_none(found)
            faults == [connectFails |-> connectFails, colFails |-> colFails]
            ScanResponse(status, phase, draft_id) ==
                [Response("scan", k, status, phase, <<>>, draft_id) EXCEPT !.faults = faults]
            Stored(draft_id) ==
                [ScanResponse(200, "ok", draft_id) EXCEPT !.supplied = << scan.schema_data >>]
        IN  /\ httpLog' = <<>>
            /\ IF scan.raised
               THEN /\ resp' = ScanResponse(400, "scan", 0)
                    /\ UNCHANGED <<rows, nextId>>
               ELSE IF MultipleResultsFound(found)
               THEN /\ resp' = ScanResponse(500, "select", 0)
                    /\ UNCHANGED <<rows, nextId>>
               ELSE IF draft = <<>>
               THEN IF UniqueViolation(rows, k)
                    THEN /\ resp' = ScanResponse(500, "commit", 0)
                         /\ UNCHANGED <<rows, nextId>>
                    ELSE /\ rows' = rows \cup {NewDraft(nextId, k, scan.schema_data)}
                         /\ nextId' = nextId + 1
                         /\ resp' = Stored(nextId)
               ELSE /\ rows' = (rows \ {draft[1]}) \cup {ScanUpdate(draft[1], scan.schema_data)}
                    /\ UNCHANGED nextId
                    /\ resp' = Stored(draft[1].id)
    /\ UNCHANGED <<gateVars, execVars, reportVars, urlVars, raceVars>>

\* GET /api/v1/schema/draft
get_draft ==
    \E k \in RequestKeys :
        LET found == DraftsOf(rows, k)
            draft == scalar_one_or_none(found)
        IN  /\ httpLog' = <<>>
            /\ resp' = IF MultipleResultsFound(found) THEN Response("get", k, 500, "select", <<>>, 0)
                       ELSE IF draft = <<>> THEN Response("get", k, 404, "not_found", <<>>, 0)
                       ELSE Response("get", k, 200, "ok", <<>>, draft[1].id)
            /\ UNCHANGED <<rows, nextId>>
    /\ UNCHANGED <<gateVars, execVars, reportVars, urlVars, raceVars>>

\* PUT /api/v1/schema/draft
update_draft ==
    \E k \in RequestKeys, structure_json \in EditInputs, cloud_refs_json \in EditRefs :
        LET found == DraftsOf(rows, k)
            draft == scalar_one_or_none(found)
            draft_data == [structure_json |-> structure_json, cloud_refs_json |-> cloud_refs_json]
        IN  /\ httpLog' = <<>>
            /\ UNCHANGED nextId
            /\ IF MultipleResultsFound(found)
               THEN /\ resp' = Response("edit", k, 500, "select", <<>>, 0)
                    /\ UNCHANGED rows
               ELSE IF draft = <<>>
               THEN /\ resp' = Response("edit", k, 404, "not_found", <<>>, 0)
                    /\ UNCHANGED rows
               ELSE /\ rows' = (rows \ {draft[1]}) \cup {EditUpdate(draft[1], draft_data)}
                    /\ resp' = [Response("edit", k, 200, "ok", <<>>, draft[1].id)
                                    EXCEPT !.supplied = << structure_json >>]
    /\ UNCHANGED <<gateVars, execVars, reportVars, urlVars, raceVars>>

\* POST /api/v1/schema/publish
publish_schema ==
    \E k \in RequestKeys, schemaOutcome \in SchemaOutcomes :
        LET found == DraftsOf(rows, k)
            draft == scalar_one_or_none(found)
        IN  /\ UNCHANGED nextId
            /\ IF MultipleResultsFound(found)
               THEN /\ resp' = Response("publish", k, 500, "select", <<>>, 0)
                    /\ httpLog' = <<>>
                    /\ UNCHANGED rows
               ELSE IF draft = <<>>
               THEN /\ resp' = Response("publish", k, 404, "not_found", <<>>, 0)
                    /\ httpLog' = <<>>
                    /\ UNCHANGED rows
               ELSE \E outcomes \in OutcomeLists(draft[1].structure_json) :
                      LET push == push_schema_to_cloud(draft[1].structure_json, schemaOutcome, outcomes)
                      IN  /\ httpLog' = push.log
                          /\ IF push.raised
                             THEN /\ resp' = PublishFailure(k, push)
                                  /\ UNCHANGED rows
                             ELSE /\ rows' = (rows \ {draft[1]}) \cup {PublishUpdate(draft[1], push.cloud_refs)}
                                  /\ resp' = [Response("publish", k, 200, "ok", <<>>, draft[1].id)
                                                 EXCEPT !.repeat = /\ resp.op = "publish"
                                                                   /\ resp.status = 200
                                                                   /\ resp.key = k
                                                                   /\ httpLog = push.log]
    /\ UNCHANGED <<gateVars, execVars, reportVars, urlVars, raceVars>>

Next ==
    \/ scan_schema
    \/ get_draft
    \/ update_draft
    \/ publish_schema

Spec == PipelineInit /\ [][Next]_vars

(***************************************************************************)
(* Claims about the draft pipeline (checked under Spec)                    *)
(***************************************************************************)
\* the table requests of the last publish, in the order they were sent
TableRequests == SelectSeq(httpLog, LAMBDA q : q.kind = "table")

\* the last publish sent a table request that the catalog did not answer with an id
SomeTableRequestFailed == \E i \in 1..Len(TableRequests) : TableRequests[i].answer # "ok"

\* the draft of the key the last request named (the pipeline keeps it unique, see C3)
RespDraft == CHOOSE r \in DraftsOf(rows, resp.key) : TRUE

\* C1: a publish in which at least one table request fails (non-success status,
\* exception, or answer without an id) fails and does not set is_synced to true: a
\* draft of the key is synced afterwards only if it was synced before, also when ids
\* were captured for other tables of the batch.
C1_FailedTableNeverSyncs ==
    [][ (resp'.op = "publish" /\ SomeTableRequestFailed') =>
            /\ resp'.status = 500
            /\ \A d \in DraftsOf(rows', resp'.key) :
                  d.is_synced => \E b \in DraftsOf(rows, resp'.key) : b.id = d.id /\ b.is_synced
      ]_vars

\* a publish of two tables captured an id for one table, failed on the other, and the
\* draft is not synced
C1_Witness ==
    /\ resp.op = "publish" /\ resp.status = 500
    /\ \E i, j \in 1..Len(TableRequests) :
          TableRequests[i].answer = "ok" /\ TableRequests[j].answer = "non_2xx"
    /\ DraftsOf(rows, resp.key) # {} /\ ~RespDraft.is_synced

\* C2: right after a scan that succeeds and after an edit that succeeds, the draft of
\* that key has is_synced = false.
C2_ScanAndEditUnsync ==
    (resp.op \in {"scan", "edit"} /\ resp.status = 200) =>
        /\ DraftsOf(rows, resp.key) # {}
        /\ \A d \in DraftsOf(rows, resp.key) : ~d.is_synced

\* a scan succeeded on a draft that a publish had marked synced (its map is stored)
\* and the draft is unsynced
C2_Witness ==
    /\ resp.op = "scan" /\ resp.status = 200
    /\ DraftsOf(rows, resp.key) # {}
    /\ RespDraft.cloud_refs_json # <<>> /\ ~RespDraft.is_synced

\* C3: the store holds at most one draft per connection_key; a scan whose introspection
\* succeeded answers 200, creates the key's draft when there was none and otherwise
\* updates the existing row (same id, no row added).
C3_OneDraftPerKey ==
    [][ /\ \A k \in RequestKeys : Cardinality(DraftsOf(rows', k)) <= 1
        /\ (resp'.op = "scan" /\ resp'.status # 400) =>
              /\ resp'.status = 200
              /\ Cardinality(DraftsOf(rows', resp'.key)) = 1
              /\ IF DraftsOf(rows, resp'.key) = {}
                 THEN Cardinality(rows') = Cardinality(rows) + 1
                 ELSE /\ Cardinality(rows') = Cardinality(rows)
                      /\ {d.id : d \in DraftsOf(rows', resp'.key)} = {d.id : d \in DraftsOf(rows, resp'.key)}
      ]_vars

\* both configured keys have a draft, and a later scan of a key whose draft had been
\* published succeeded: there are still two rows
C3_Witness ==
    /\ resp.op = "scan" /\ resp.status = 200
    /\ Cardinality(rows) = 2
    /\ \A k \in ConfiguredKeys : Cardinality(DraftsOf(rows, k)) = 1
    /\ RespDraft.cloud_refs_json # <<>>

\* C4: when the schema container request fails (non-success status or fault), no table
\* request is sent and the publish fails; a table request is sent only after a schema
\* request that was answered with a schema id.
C4_NoTablesAfterSchemaFailure ==
    resp.op = "publish" =>
        /\ (httpLog # <<>> /\ httpLog[1].answer # "ok") =>
              Len(httpLog) = 1 /\ resp.status = 500
        /\ \A i \in 1..Len(httpLog) :
              httpLog[i].kind = "table" =>
                  i > 1 /\ httpLog[1].kind = "schema" /\ httpLog[1].answer = "ok"

\* the publish of a draft holding tables stopped at a schema request answered with a
\* non-success status
C4_Witness ==
    /\ resp.op = "publish" /\ resp.status = 500
    /\ httpLog = << [kind |-> "schema", table_name |-> <<"", "">>, answer |-> "non_2xx", id |-> 0] >>
    /\ DraftsOf(rows, resp.key) # {} /\ Len(RespDraft.structure_json) = 2

\* the number of entries of a table list before its first entry that lacks a key
\* (the whole length when every entry is a table definition)
CompletePrefix(schema_tables) ==
    IF \A i \in 1..Len(schema_tables) : schema_tables[i].complete
    THEN Len(schema_tables)
    ELSE (CHOOSE i \in 1..Len(schema_tables) :
              /\ ~schema_tables[i].complete
              /\ \A j \in 1..(i - 1) : schema_tables[j].complete) - 1

C14_RefsChangeOnlyOnPublish ==
    [][ \A d \in rows' :
          \/ \E b \in rows : b.id = d.id /\ b.cloud_refs_json = d.cloud_refs_json
          \/ (\A b \in rows : b.id # d.id) /\ d.cloud_refs_json = <<>>
          \/ /\ resp'.op = "publish" /\ resp'.status = 200 /\ resp'.key = d.connection_key
             /\ \A i \in 1..Len(httpLog') : httpLog'[i].answer = "ok"
      ]_vars

\* an edit succeeded on a draft that a publish had given the id 1 for table d1.a: the
\* edit changed the table list, and the stored map is still the published one
C14_Witness ==
    /\ resp.op = "edit" /\ resp.status = 200
    /\ DraftsOf(rows, resp.key) # {}
    /\ RespDraft.cloud_refs_json # <<>>
    /\ <<"d1", "a">> \in DOMAIN RespDraft.cloud_refs_json[1]
    /\ RespDraft.cloud_refs_json[1][<<"d1", "a">>] = 1
    /\ Len(RespDraft.structure_json) < Cardinality(DOMAIN RespDraft.cloud_refs_json[1])

\* C15: after a scan that succeeds and after an edit that succeeds, the stored
\* structure_json of the key is exactly the table list that this scan or edit
\* supplied: nothing of the earlier list remains unless the new list holds it.
C15_FullOverwrite ==
    (resp.op \in {"scan", "edit"} /\ resp.status = 200) =>
        /\ resp.supplied # <<>>
        /\ \A d \in DraftsOf(rows, resp.key) : d.structure_json = resp.supplied[1]

\* a scan in which the columns of table b could not be read succeeded on a draft
\* whose published map still names d1.b: the stored list holds d1.a only
C15_Witness ==
    /\ resp.op = "scan" /\ resp.status = 200 /\ resp.faults.colFails = {"b"}
    /\ DraftsOf(rows, resp.key) # {}
    /\ RespDraft.cloud_refs_json # <<>>
    /\ <<"d1", "b">> \in DOMAIN RespDraft.cloud_refs_json[1]
    /\ RespDraft.structure_json = << TableEntry("d1", "a", TRUE) >>

\* the ids the last publish captured: table name -> id of its "ok" answer
CapturedIds ==
    LET ok == SelectSeq(TableRequests, LAMBDA q : q.answer = "ok")
    IN  [n \in {ok[i].table_name : i \in 1..Len(ok)} |->
            (CHOOSE q \in Range(ok) : q.table_name = n /\
                 \A i, j \in 1..Len(ok) : (ok[i] = q /\ ok[j].table_name = n) => j <= i).id]

\* C16: a publish that fails in the table phase after some table succeeded answers
\* with a failure that carries the map of the ids captured so far and the per-table
\* error list, and that differs from the failure of the schema container phase.
C16_FailureCarriesPartialMap ==
    (/\ resp.op = "publish" /\ resp.status = 500
     /\ SomeTableRequestFailed
     /\ \E i \in 1..Len(TableRequests) : TableRequests[i].answer = "ok") =>
        /\ resp.carried = << CapturedIds >>
        /\ resp.errors # <<>>
        /\ resp.phase # "schema"

\* C17: a scan of a configured key that connects and lists the tables succeeds, and
\* its result holds, in the order of the listing, exactly one definition for each
\* listed table whose columns could be read and none for the others: a table that
\* fails neither aborts the scan nor drops a later table. A scan of an unknown key, or
\* one that cannot connect or list the tables, fails with no result.
C17_ScanSkipsFailingTables ==
    resp.op = "scan" =>
        LET k == resp.key
            read == SelectSeq(DbTables(k), LAMBDA t : t \notin resp.faults.colFails)
        IN  IF k \in ConfiguredKeys /\ ~resp.faults.connectFails
            THEN /\ resp.status = 200
                 /\ resp.supplied = << [i \in 1..Len(read) |-> TableEntry(dbname(k), read[i], TRUE)] >>
            ELSE /\ resp.status = 400
                 /\ resp.supplied = <<>>

\* the columns of the first table of k1 could not be read: the scan succeeded and its
\* result is the definition of the second table alone
C17_Witness ==
    /\ resp.op = "scan" /\ resp.key = "k1" /\ resp.status = 200
    /\ resp.faults.colFails = {"a"}
    /\ resp.supplied = << << TableEntry("d1", "b", TRUE) >> >>

\* C19: when a publish succeeds right after a successful publish of the same key, so
\* that the draft is unchanged in between, and the catalog gives the same answers
\* (every request accepted, the same id for each table), the second publish leaves the
\* draft as the first left it: the stored map is the same, it is the map of the ids
\* returned, and is_synced is true.
C19_RepublishSameMap ==
    [][ (resp'.op = "publish" /\ resp'.repeat) =>
            /\ DraftsOf(rows', resp'.key) # {}
            /\ \A d \in DraftsOf(rows', resp'.key) :
                  /\ d.is_synced
                  /\ d.cloud_refs_json = << CapturedIds' >>
                  /\ \E b \in DraftsOf(rows, resp'.key) :
                        b.id = d.id /\ b.cloud_refs_json = d.cloud_refs_json
      ]_vars

\* the draft of k1, holding two tables, was published twice in a row with the same
\* answers: it is synced and its map names both tables
C19_Witness ==
    /\ resp.op = "publish" /\ resp.status = 200 /\ resp.repeat
    /\ Len(TableRequests) = 2
    /\ DraftsOf(rows, resp.key) # {}
    /\ RespDraft.is_synced
    /\ RespDraft.cloud_refs_json = << CapturedIds >>
    /\ Cardinality(DOMAIN CapturedIds) = 2

(***************************************************************************)
(* Query executor (src/main.py lines 79-103)                               *)
(***************************************************************************)
\* what can go wrong after the gate, in the order the code reaches it:
\*   no_connections       get_any_valid_connection_url finds no connection (line 58)
\*   create_engine_error  building the url or create_engine raises (lines 60, 87)
\*   connect_error        client_engine.connect() raises (line 88)
\*   execute_error        connection.execute raises (line 89)
\*   fetch_error          reading keys/rows or building the response raises (lines 90-93)
ExecFaults == {"none", "no_connections", "create_engine_error", "connect_error",
               "execute_error", "fetch_error"}

ExecChunks ==
    << <<"S", "E", "L", "E", "C", "T">>,
       <<" ", "x">>,
       <<";">>,
       <<" ", "d", "r", "o", "p">>,
       <<"U", "p", "d", "a", "t", "e">> >>

\* the worked examples given to execute_query: one the gate accepts, one it rejects
\* by a keyword, one it rejects by the shape rule
ExecExamples ==
    { <<"S", "E", "L", "E", "C", "T", " ", "*", " ", "F", "R", "O", "M", " ", "u", "s", "e", "r", "s">>,
      <<"S", "E", "L", "E", "C", "T", " ", "1", ";", " ", "D", "R", "O", "P", " ", "T", "A", "B", "L", "E", " ", "x">>,
      <<"U", "P", "D", "A", "T", "E", " ", "u", "s", "e", "r", "s", " ", "S", "E", "T", " ", "x", "=", "1">> }

ExecTexts == ChunkTexts(ExecChunks, MaxExecChunks) \cup ExecExamples

ExecGate_Skip(text) == Accepted

\* line 81: the gate runs first; a rejection leaves the handler before the try block
ExecGate(text) == validate_sql_safety(text)

Finally_OnSuccessOnly(client_engine, raised) ==
    IF client_engine # <<>> /\ ~raised
    THEN << [client_engine[1] EXCEPT !.disposed = TRUE] >>
    ELSE client_engine

\* lines 102-103: finally: if client_engine: client_engine.dispose()
Finally(client_engine, raised) ==
    IF client_engine # <<>>
    THEN << [client_engine[1] EXCEPT !.disposed = TRUE] >>
    ELSE client_engine

\* the handler execute_query on one text with one fault: the response, the engine the request
\* created (<<>> when client_engine stayed None) and the statements it sent
ExecuteQueryOutcome(text, fault) ==
    LET gate == ExecGate(text)
    IN  IF gate.status # 200
        THEN [status |-> 403, detail |-> gate.rule, engine |-> <<>>, statements |-> <<>>]
        ELSE
            LET created == fault \notin {"no_connections", "create_engine_error"}
                connected == created /\ fault # "connect_error"
                client_engine == IF created
                                 THEN << [connected |-> connected, disposed |-> FALSE] >>
                                 ELSE <<>>
                raised == fault # "none"
            IN  [status |-> IF raised THEN 400 ELSE 200,
                 detail |-> fault,
                 engine |-> Finally(client_engine, raised),
                 statements |-> IF connected THEN <<text>> ELSE <<>>]

ExecInit == ExecIdle /\ GateIdle /\ PipelineIdle /\ OthersIdle

execute_query ==
    /\ Len(engines) < MaxRequests
    /\ \E text \in ExecTexts, fault \in ExecFaults :
        LET r == ExecuteQueryOutcome(text, fault)
        IN  /\ sql' = text
            /\ engines' = engines \o r.engine
            /\ executed' = r.statements
            /\ eresp' = [status |-> r.status, rule |-> r.detail, which |-> r.engine]
    /\ UNCHANGED <<verdict, pipelineVars, reportVars, urlVars, raceVars>>

ExecNext == execute_query

SpecExec == ExecInit /\ [][ExecNext]_vars

(***************************************************************************)
(* Claims about the executor (checked under SpecExec)                      *)
(***************************************************************************)
\* C6: a request whose text validate_sql_safety rejects creates no engine, opens no
\* connection and sends no statement; every statement sent to the client database is
\* the request's own text and the gate accepts it.
C6_GateBeforeExecution ==
    [][ /\ validate_sql_safety(sql').status # 200 =>
              engines' = engines /\ executed' = <<>> /\ eresp'.status = 403
        /\ \A i \in 1..Len(executed') :
              executed'[i] = sql' /\ validate_sql_safety(executed'[i]) = Accepted
      ]_vars

\* after an earlier request passed the gate and reached the client database, a request
\* holding a deny-listed keyword was rejected: it created no engine and sent nothing
C6_Witness ==
    /\ eresp.status = 403 /\ eresp.rule = "keyword" /\ eresp.which = <<>>
    /\ validate_sql_safety(sql).status = 403
    /\ executed = <<>>
    /\ Len(engines) = 1 /\ engines[1].connected

\* C7: once a request has returned or failed, every engine created so far is disposed.
C7_EnginesDisposed ==
    \A i \in 1..Len(engines) : engines[i].disposed

\* a request failed with a query error after its engine was created and connected, and
\* that engine is disposed
C7_Witness ==
    /\ eresp.status = 400 /\ eresp.rule = "execute_error"
    /\ eresp.which # <<>> /\ eresp.which[1].connected /\ eresp.which[1].disposed
    /\ engines # <<>> /\ engines[Len(engines)] = eresp.which[1]

(***************************************************************************)
(* Claims about the gate (checked under SpecGate)                          *)
(***************************************************************************)
\* the deny-list as the specification text gives it (thirteen keywords)
SpecDenyList ==
    { <<"D", "R", "O", "P">>, <<"D", "E", "L", "E", "T", "E">>, <<"U", "P", "D", "A", "T", "E">>,
      <<"I", "N", "S", "E", "R", "T">>, <<"T", "R", "U", "N", "C", "A", "T", "E">>,
      <<"A", "L", "T", "E", "R">>, <<"G", "R", "A", "N", "T">>, <<"R", "E", "V", "O", "K", "E">>,
      <<"C", "R", "E", "A", "T", "E">>, <<"E", "X", "E", "C">>,
      <<"S", "H", "U", "T", "D", "O", "W", "N">>, <<"M", "E", "R", "G", "E">>, <<"C", "A", "L", "L">> }

\* the three keywords of the specification's list that main.py line 19 does not hold
SpecOnlyKeywords ==
    { <<"S", "H", "U", "T", "D", "O", "W", "N">>, <<"M", "E", "R", "G", "E">>, <<"C", "A", "L", "L">> }

TenKeywords == SpecDenyList \ SpecOnlyKeywords

\* keyword k appears in the raw text as a whole word, in any letter case
AppearsAsWholeWord(k, text) ==
    \E i \in 1..Len(text) :
        /\ i + Len(k) - 1 <= Len(text)
        /\ \A j \in 1..Len(k) : UpperChar(text[i + j - 1]) = k[j]
        /\ (i = 1 \/ ~IsWordChar(text[i - 1]))
        /\ (i + Len(k) - 1 = Len(text) \/ ~IsWordChar(text[i + Len(k)]))

\* the text, trimmed and upper-cased, begins with SELECT or WITH
BeginsSelectOrWith(text) ==
    LET t == Upper(Strip(text))
    IN  OccursAt(t, KwSelect, 1) \/ OccursAt(t, KwWith, 1)

Validated == verdict # Pending

\* C8 (as stated): every text in which one of the THIRTEEN keywords DROP .. CALL
\* appears as a whole word, in any letter case, is rejected by validate_sql_safety.
C8_ThirteenKeywordsRejected ==
    Validated => \A k \in SpecDenyList : AppearsAsWholeWord(k, sql) => verdict.status = 403

\* C8 (amended): every text in which one of the TEN keywords DROP, DELETE, UPDATE,
\* INSERT, TRUNCATE, ALTER, GRANT, REVOKE, CREATE, EXEC appears as a whole word, in any
\* letter case, is rejected, also when the text starts with SELECT or WITH.
C8_TenKeywordsRejected ==
    Validated => \A k \in TenKeywords : AppearsAsWholeWord(k, sql) => verdict.status = 403

\* a SELECT text holding a lower-case deny-listed keyword as a whole word was rejected
\* by the keyword rule
C8_Witness ==
    /\ Validated
    /\ BeginsSelectOrWith(sql)
    /\ AppearsAsWholeWord(<<"D", "E", "L", "E", "T", "E">>, sql)
    /\ ~Search(<<"D", "E", "L", "E", "T", "E">>, sql)
    /\ verdict = Rejected("keyword", <<"D", "E", "L", "E", "T", "E">>)

\* C9: every text whose raw form contains ';', '--' or '/*' at any position is
\* rejected, also when it starts with SELECT or WITH and holds no deny-listed keyword.
C9_PatternsRejected ==
    Validated =>
        \A p \in { <<";">>, <<"-", "-">>, <<"/", "*">> } :
            (\E i \in 1..Len(sql) : OccursAt(sql, p, i)) => verdict.status = 403

\* a SELECT text without any deny-listed keyword, holding '--', was rejected by the
\* pattern rule
C9_Witness ==
    /\ Validated
    /\ BeginsSelectOrWith(sql)
    /\ \A k \in SpecDenyList : ~AppearsAsWholeWord(k, sql)
    /\ \E i \in 1..Len(sql) : OccursAt(sql, <<"-", "-">>, i)
    /\ verdict = Rejected("pattern", <<>>)

\* C10: every text whose trimmed, upper-cased form does not start with SELECT or WITH
\* is rejected, and with the shape reason, also when it holds a deny-listed keyword.
C10_ShapeFirst ==
    Validated /\ ~BeginsSelectOrWith(sql) => verdict = Rejected("shape", <<>>)

\* 'UPDATE users SET x=1' violates the shape rule and the keyword rule and was
\* rejected with the shape reason
C10_Witness ==
    /\ Validated
    /\ sql = <<"U", "P", "D", "A", "T", "E", " ", "u", "s", "e", "r", "s", " ", "S", "E", "T", " ", "x", "=", "1">>
    /\ AppearsAsWholeWord(<<"U", "P", "D", "A", "T", "E">>, sql)
    /\ verdict = Rejected("shape", <<>>)

\* the raw text holds one of the forbidden patterns
HoldsPattern(text) ==
    \E p \in { <<";">>, <<"-", "-">>, <<"/", "*">> } : \E i \in 1..Len(text) : OccursAt(text, p, i)

\* keyword k occurs in the text, in any letter case, only inside longer words
OnlyInsideLongerWords(k, text) == Search(k, Upper(text)) /\ ~AppearsAsWholeWord(k, text)

\* C20: every text that begins with SELECT or WITH, holds none of the forbidden
\* patterns and holds the keywords of the deny-list of main.py only inside longer
\* words (updated_at_log, created_by) or not at all, is accepted: a keyword that is
\* part of a longer word does not trigger the keyword rule.
C20_EmbeddedKeywordsAccepted ==
    (/\ Validated
     /\ BeginsSelectOrWith(sql)
     /\ ~HoldsPattern(sql)
     /\ \A k \in TenKeywords : ~AppearsAsWholeWord(k, sql)) => verdict = Accepted

\* 'SELECT * FROM updated_at_log' holds UPDATE inside a longer word and was accepted
C20_Witness ==
    /\ Validated
    /\ sql = <<"S", "E", "L", "E", "C", "T", " ", "*", " ", "F", "R", "O", "M", " ", "u", "p", "d", "a", "t", "e", "d", "_", "a", "t", "_", "l", "o", "g">>
    /\ OnlyInsideLongerWords(<<"U", "P", "D", "A", "T", "E">>, sql)
    /\ verdict = Accepted

\* 'SELECT 1; DROP TABLE x'
SeparatorExample ==
    <<"S", "E", "L", "E", "C", "T", " ", "1", ";", " ", "D", "R", "O", "P", " ", "T", "A", "B", "L", "E", " ", "x">>

\* C21 as claimed: 'SELECT 1; DROP TABLE x' is rejected and the rule reported is the
\* statement-separator pattern.
C21_SeparatorReported ==
    (Validated /\ sql = SeparatorExample) => verdict = Rejected("pattern", <<>>)

\* C21: 'SELECT 1; DROP TABLE x' is rejected and the rule reported is the keyword rule,
\* naming DROP. Every rejection reports the first rule, in the order shape, keyword,
\* pattern, that the text violates: the shape reason exactly when the text does not
\* begin with SELECT or WITH; else a keyword of the deny-list of main.py that the text
\* holds as a whole word; else, when it holds none, the pattern reason for a text that
\* holds a forbidden pattern.
C21_FirstViolatedRuleReported ==
    Validated =>
        /\ sql = SeparatorExample => verdict = Rejected("keyword", <<"D", "R", "O", "P">>)
        /\ verdict.status = 403 =>
              /\ verdict.rule \in {"shape", "keyword", "pattern"}
              /\ verdict.rule = "shape" <=> ~BeginsSelectOrWith(sql)
              /\ verdict.rule = "keyword" =>
                    verdict.which \in TenKeywords /\ AppearsAsWholeWord(verdict.which, sql)
              /\ verdict.rule = "pattern" =>
                    HoldsPattern(sql) /\ \A k \in TenKeywords : ~AppearsAsWholeWord(k, sql)

\* 'SELECT 1; DROP TABLE x' holds a separator and the keyword DROP and was rejected
\* with the keyword reason
C21_Witness ==
    /\ Validated
    /\ sql = SeparatorExample
    /\ HoldsPattern(sql)
    /\ verdict = Rejected("keyword", <<"D", "R", "O", "P">>)

(***************************************************************************)
(* Report store and list_reports (src/main.py lines 246-305)               *)
(***************************************************************************)
\* user identifiers and role names of the requests
Users == {"a", "b"}
Roles == {"Admin", "User"}
\* current_role of a request: "" when the parameter is absent (None) or empty
RequestRoles == Roles \cup {""}
\* dashboard_id: 0 stands for no dashboard (None in a request, NULL in a row); the
\* foreign key is not enforced by the SQLite store (src/database.py line 6)
DashboardIds == {0, 1}
Scopes == {"personal", "global", "role"}
\* scope_target of a request body, Optional[List[str]]: <<>> is None, <<list>> a list
ScopeTargetInputs == {<<>>, << <<>> >>, << <<"Admin">> >>}

\* json.dumps of a list of role names: the text of a JSON array
json_dumps(items) == [kind |-> "list", items |-> items]
\* json.loads of a stored text: raises on a text that is not JSON; otherwise the value
\* (a list for an array, a number for a number)
json_loads(text) ==
    IF text.kind = "malformed" THEN [raised |-> TRUE, kind |-> "none", items |-> <<>>]
    ELSE [raised |-> FALSE, kind |-> text.kind, items |-> text.items]

\* Python truth of an optional list: None and [] are false
Truthy(opt) == opt # <<>> /\ opt[1] # <<>>

\* main.py lines 251-257: the stored scope_target is NULL (<<>>) unless the body
\* carries a non-empty list, which is stored as its JSON text
StoredScopeTarget(scope_target) ==
    IF Truthy(scope_target) THEN << json_dumps(scope_target[1]) >> ELSE <<>>

\* name, type, sql_query, question and conversation_id of a request body
ReportContents ==
    { [name |-> "n1", type |-> "table", sql_query |-> "q1", question |-> "?1", conversation_id |-> "c1"],
      [name |-> "n2", type |-> "bar", sql_query |-> "q2", question |-> "?2", conversation_id |-> "c2"] }

\* The store is SQLite (src/database.py line 6) and the id columns are INTEGER PRIMARY
\* KEY without AUTOINCREMENT: a new row gets the largest id in use plus one, so the id
\* of a deleted last row is given again.
NextRowId(rs) ==
    IF rs = {} THEN 1 ELSE (CHOOSE r \in rs : \A q \in rs : q.id <= r.id).id + 1

\* models.Report(**data), lines 251-258
NewReport(id, dashboard_id, user_identifier, scope, scope_target, content) ==
    [id |-> id, dashboard_id |-> dashboard_id, user_identifier |-> user_identifier,
     scope |-> scope, scope_target |-> StoredScopeTarget(scope_target),
     name |-> content.name, type |-> content.type, sql_query |-> content.sql_query,
     question |-> content.question, conversation_id |-> content.conversation_id]

\* lines 276-292: the rows the query fetches
Candidates(rs, current_user, dashboard_id) ==
    IF dashboard_id # 0
    THEN {r \in rs : r.dashboard_id = dashboard_id}
    ELSE {r \in rs :
            /\ \/ r.scope = "global"
               \/ r.scope = "personal" /\ r.user_identifier = current_user
               \/ r.scope = "role"
            /\ r.dashboard_id = 0}

\* lines 296-303: TRUE when the loop appends r to final_reports. The continue of line
\* 301 is reached only for a role-scoped row with a non-NULL, non-empty target that
\* parses, a request role that is given and not in it, and a requester who is not the
\* owner; an exception of json.loads or of the membership test is passed over and the
\* row is appended.
Appended(r, current_user, current_role) ==
    IF r.scope = "role" /\ r.scope_target # <<>>
    THEN LET parsed == json_loads(r.scope_target[1])
         IN  IF parsed.raised THEN TRUE
             ELSE IF current_role = "" THEN TRUE
             ELSE IF parsed.kind # "list" THEN TRUE
             ELSE ~( /\ current_role \notin Range(parsed.items)
                     /\ r.user_identifier # current_user )
    ELSE TRUE

RECURSIVE NewestFirst(_)
\* order_by(created_at.desc()): rows are created in id order
NewestFirst(rs) ==
    IF rs = {} THEN <<>>
    ELSE LET m == CHOOSE r \in rs : \A q \in rs : q.id <= r.id
         IN  << m >> \o NewestFirst(rs \ {m})

\* lines 267-305 with the default skip and limit: the ids of final_reports, in order
list_reports_data(rs, current_user, dashboard_id, current_role) ==
    LET all_candidates == NewestFirst(Candidates(rs, current_user, dashboard_id))
        final_reports == SelectSeq(all_candidates, LAMBDA r : Appended(r, current_user, current_role))
    IN  [i \in 1..Len(final_reports) |-> final_reports[i].id]

ReportsInit == ReportsIdle /\ UrlIdle /\ PipelineIdle /\ ExecIdle /\ GateIdle /\ RaceIdle

\* POST /api/v1/reports/
create_report ==
    /\ Cardinality(reports) < MaxReports
    /\ \E dashboard_id \in DashboardIds, user_identifier \in Users, scope \in Scopes,
          scope_target \in ScopeTargetInputs, content \in ReportContents :
        /\ reports' = reports \cup {NewReport(NextRowId(reports), dashboard_id, user_identifier,
                                              scope, scope_target, content)}
        /\ rresp' = [NoListing EXCEPT !.op = "create", !.status = 200, !.id = NextRowId(reports)]
    /\ UNCHANGED <<dashboards, deleted, pipelineVars, gateVars, execVars, urlVars, raceVars>>

\* GET /api/v1/reports/
list_reports ==
    /\ \E current_user \in Users, dashboard_id \in DashboardIds, current_role \in RequestRoles :
        rresp' = [op |-> "list", current_user |-> current_user, dashboard_id |-> dashboard_id,
                  current_role |-> current_role,
                  data |-> list_reports_data(reports, current_user, dashboard_id, current_role),
                  status |-> 200, id |-> 0]
    /\ UNCHANGED <<reports, dashboards, deleted, pipelineVars, gateVars, execVars, urlVars, raceVars>>

\* the response of a request other than list_reports
Answer(op, current_user, id, status, data) ==
    [op |-> op, current_user |-> current_user, dashboard_id |-> 0, current_role |-> "",
     data |-> data, status |-> status, id |-> id]

\* select(models.Report).where(id == report_id): <<>> or the row (id is the primary key)
ReportById(rs, report_id) ==
    IF \E r \in rs : r.id = report_id THEN << CHOOSE r \in rs : r.id = report_id >> ELSE <<>>

\* line 324: a user who is not the owner may not edit a personal report
UpdateForbidden(report, current_user) ==
    report.user_identifier # current_user /\ report.scope = "personal"

\* lines 328-334: the five fields the handler copies from the body
UpdateReport(report, report_update) ==
    [report EXCEPT !.sql_query = report_update.sql_query,
                   !.question = report_update.question,
                   !.conversation_id = report_update.conversation_id,
                   !.name = report_update.name,
                   !.type = report_update.type]

\* PUT /api/v1/reports/{report_id}
update_report ==
    /\ \E report_id \in 1..MaxReports, report_update \in ReportContents, current_user \in Users :
        LET report == ReportById(reports, report_id)
        IN  IF report = <<>>
            THEN /\ rresp' = Answer("update_report", current_user, report_id, 404, <<>>)
                 /\ UNCHANGED reports
            ELSE IF UpdateForbidden(report[1], current_user)
            THEN /\ rresp' = Answer("update_report", current_user, report_id, 403, <<>>)
                 /\ UNCHANGED reports
            ELSE /\ reports' = (reports \ {report[1]}) \cup {UpdateReport(report[1], report_update)}
                 /\ rresp' = Answer("update_report", current_user, report_id, 200, <<>>)
    /\ UNCHANGED <<dashboards, deleted, pipelineVars, gateVars, execVars, urlVars, raceVars>>

OwnReportById_AnyUser(rs, report_id, current_user) == ReportById(rs, report_id)

\* line 347: select(models.Report).where(id == report_id, user_identifier == current_user)
OwnReportById(rs, report_id, current_user) ==
    LET report == ReportById(rs, report_id)
    IN  IF report # <<>> /\ report[1].user_identifier = current_user THEN report ELSE <<>>

\* DELETE /api/v1/reports/{report_id}
delete_report ==
    /\ \E report_id \in 1..MaxReports, current_user \in Users :
        LET report == OwnReportById(reports, report_id, current_user)
        IN  IF report = <<>>
            THEN /\ rresp' = Answer("delete_report", current_user, report_id, 404, <<>>)
                 /\ UNCHANGED reports
            ELSE /\ reports' = reports \ {report[1]}
                 /\ rresp' = Answer("delete_report", current_user, report_id, 200, <<>>)
    /\ UNCHANGED <<dashboards, deleted, pipelineVars, gateVars, execVars, urlVars, raceVars>>

\* title of a dashboard body; description, layout_config and context_definition are
\* written by the same statements as title and are left out
DashboardTitles == {"t1", "t2"}

\* models.Dashboard(**dash_data.model_dump()), line 196
NewDashboard(id, user_identifier, title) == [id |-> id, user_identifier |-> user_identifier, title |-> title]

\* lines 211 and 234: select(models.Dashboard).where(id == dashboard_id,
\* user_identifier == current_user)
OwnDashboardById(ds, dashboard_id, current_user) ==
    IF \E d \in ds : d.id = dashboard_id /\ d.user_identifier = current_user
    THEN << CHOOSE d \in ds : d.id = dashboard_id /\ d.user_identifier = current_user >>
    ELSE <<>>

\* GET /api/v1/dashboards/
list_dashboards ==
    /\ \E current_user \in Users :
        LET mine == NewestFirst({d \in dashboards : d.user_identifier = current_user})
        IN  rresp' = Answer("list_dashboards", current_user, 0, 200, [i \in 1..Len(mine) |-> mine[i].id])
    /\ UNCHANGED <<reports, dashboards, deleted, pipelineVars, gateVars, execVars, urlVars, raceVars>>

\* POST /api/v1/dashboards/
create_dashboard ==
    /\ Cardinality(dashboards) < MaxDashboards
    /\ \E user_identifier \in Users, title \in DashboardTitles :
        /\ dashboards' = dashboards \cup {NewDashboard(NextRowId(dashboards), user_identifier, title)}
        /\ rresp' = Answer("create_dashboard", user_identifier, NextRowId(dashboards), 200, <<>>)
    /\ UNCHANGED <<reports, deleted, pipelineVars, gateVars, execVars, urlVars, raceVars>>

\* PUT /api/v1/dashboards/{dashboard_id}
update_dashboard ==
    /\ \E dashboard_id \in 1..MaxDashboards, title \in DashboardTitles, current_user \in Users :
        LET dash == OwnDashboardById(dashboards, dashboard_id, current_user)
        IN  IF dash = <<>>
            THEN /\ rresp' = Answer("update_dashboard", current_user, dashboard_id, 404, <<>>)
                 /\ UNCHANGED dashboards
            ELSE /\ dashboards' = (dashboards \ {dash[1]}) \cup {[dash[1] EXCEPT !.title = title]}
                 /\ rresp' = Answer("update_dashboard", current_user, dashboard_id, 200, <<>>)
    /\ UNCHANGED <<reports, deleted, pipelineVars, gateVars, execVars, urlVars, raceVars>>

\* models.py line 27, cascade="all, delete-orphan": db.delete(dash) deletes the reports
\* of the relationship, the rows whose dashboard_id is the dashboard's id
CascadeDelete(rs, dashboard_id) == {r \in rs : r.dashboard_id # dashboard_id}

\* DELETE /api/v1/dashboards/{dashboard_id}
delete_dashboard ==
    /\ \E dashboard_id \in 1..MaxDashboards, current_user \in Users :
        LET dash == OwnDashboardById(dashboards, dashboard_id, current_user)
        IN  IF dash = <<>>
            THEN /\ rresp' = Answer("delete_dashboard", current_user, dashboard_id, 404, <<>>)
                 /\ UNCHANGED <<dashboards, reports, deleted>>
            ELSE /\ dashboards' = dashboards \ {dash[1]}
                 /\ reports' = CascadeDelete(reports, dashboard_id)
                 /\ deleted' = deleted \cup {dashboard_id}
                 /\ rresp' = Answer("delete_dashboard", current_user, dashboard_id, 200, <<>>)
    /\ UNCHANGED <<pipelineVars, gateVars, execVars, urlVars, raceVars>>

\* the report endpoints
ReportsNext ==
    \/ create_report
    \/ list_reports
    \/ update_report
    \/ delete_report

\* the report endpoints and the dashboard endpoints
BoardsNext ==
    \/ ReportsNext
    \/ list_dashboards
    \/ create_dashboard
    \/ update_dashboard
    \/ delete_dashboard

SpecBoards == ReportsInit /\ [][BoardsNext]_vars

SpecReports == ReportsInit /\ [][ReportsNext]_vars

(***************************************************************************)
(* Claims about the report filter (checked under SpecReports)              *)
(***************************************************************************)
\* the last list request returned report r
Returned(r) == r.id \in Range(rresp.data)

\* the stored scope_target of r is the JSON text of a non-empty list
TargetIsList(r) ==
    /\ r.scope_target # <<>>
    /\ r.scope_target[1].kind = "list"
    /\ r.scope_target[1].items # <<>>

\* role is a member of the scope_target of r
RoleInTarget(r, role) == TargetIsList(r) /\ role \in Range(r.scope_target[1].items)

\* C11: in the library view (no dashboard given) a report outside every dashboard is
\* returned if and only if its scope is global, or it is personal and owned by the
\* requester, or it is role-scoped and the requesting role is in its scope_target, or
\* the requester owns it. Stated for the reports whose scope_target is well formed
\* (a role-scoped report carries a non-empty list); C13 is about the others.
C11_LibraryVisibility ==
    (rresp.op = "list" /\ rresp.dashboard_id = 0) =>
        \A r \in reports :
            (r.dashboard_id = 0 /\ (r.scope = "role" => TargetIsList(r))) =>
                ( Returned(r) <=>
                    \/ r.scope = "global"
                    \/ r.scope = "personal" /\ r.user_identifier = rresp.current_user
                    \/ r.scope = "role" /\ RoleInTarget(r, rresp.current_role)
                    \/ r.user_identifier = rresp.current_user )

\* C12: when a dashboard is given, a report is returned if and only if it belongs to
\* that dashboard, whoever owns it and whatever its scope and the requesting role.
C12_ContainerMembership ==
    (rresp.op = "list" /\ rresp.dashboard_id # 0) =>
        \A r \in reports : Returned(r) <=> r.dashboard_id = rresp.dashboard_id

\* C13: in the library view a role-scoped report whose stored scope_target is absent,
\* empty, malformed or not a list is returned to nobody but its owner.
C13_FailClosed ==
    (rresp.op = "list" /\ rresp.dashboard_id = 0) =>
        \A r \in reports :
            (r.scope = "role" /\ ~TargetIsList(r) /\ r.user_identifier # rresp.current_user) =>
                ~Returned(r)

\* C22: a delete_report request removes nothing but the report it names, and only
\* when the requesting user owns that report; from any other user, whatever the scope
\* of the report, the request fails with 404 and the store is unchanged.
C22_OnlyOwnerDeletes ==
    [][ rresp'.op = "delete_report" =>
            /\ (\A r \in reports : r.id = rresp'.id => r.user_identifier # rresp'.current_user) =>
                  rresp'.status = 404 /\ reports' = reports
            /\ reports' \subseteq reports
            /\ \A r \in reports \ reports' :
                  r.id = rresp'.id /\ r.user_identifier = rresp'.current_user
      ]_vars

\* a user who does not own a global report asked to delete it: the request failed and
\* the report is still stored
C22_Witness ==
    /\ rresp.op = "delete_report" /\ rresp.status = 404
    /\ \E r \in reports :
          r.id = rresp.id /\ r.scope = "global" /\ r.user_identifier # rresp.current_user

\* r and q differ at most in sql_query, question and conversation_id
SameButChatFields(r, q) ==
    [q EXCEPT !.sql_query = r.sql_query, !.question = r.question,
              !.conversation_id = r.conversation_id] = r

\* C30: an update_report request from a user who does not own the report changes at
\* most its sql_query, question and conversation_id, never its name, type or other
\* fields; when the report is personal the request is rejected and changes nothing.
C30_NonOwnerUpdatesChatFieldsOnly ==
    [][ rresp'.op = "update_report" =>
            \A r \in reports :
                (r.id = rresp'.id /\ r.user_identifier # rresp'.current_user) =>
                    /\ \E q \in reports' : q.id = r.id /\ SameButChatFields(r, q)
                    /\ r.scope = "personal" => rresp'.status = 403 /\ reports' = reports
      ]_vars

\* a dashboard id that a delete request deleted and that no stored dashboard has now
DeletedDashboard(id) == id \in deleted /\ \A d \in dashboards : d.id # id

\* C23: no stored report refers to a dashboard that has been deleted; a delete of a
\* dashboard deletes every report whose dashboard_id is that dashboard, and only the
\* owner of a dashboard can delete it.
C23_NoReportOfDeletedDashboard ==
    \A r \in reports : r.dashboard_id # 0 => ~DeletedDashboard(r.dashboard_id)

(***************************************************************************)
(* get_db_url_from_config (src/config.py lines 42-84)                      *)
(***************************************************************************)
\* str.lower() on one character
LowerChar(c) ==
    IF \E i \in 1..Len(UpperChars) : UpperChars[i] = c
    THEN LowerChars[CHOOSE i \in 1..Len(UpperChars) : UpperChars[i] = c]
    ELSE c

\* str.lower
Lower(s) == [i \in 1..Len(s) |-> LowerChar(s[i])]

\* the five dialect tags the code has a branch for
TagMariadb == <<"m", "a", "r", "i", "a", "d", "b">>
TagMysql == <<"m", "y", "s", "q", "l">>
TagPostgresql == <<"p", "o", "s", "t", "g", "r", "e", "s", "q", "l">>
TagOracle == <<"o", "r", "a", "c", "l", "e">>
TagSqlserver == <<"s", "q", "l", "s", "e", "r", "v", "e", "r">>
SupportedDialects == {TagMariadb, TagMysql, TagPostgresql, TagOracle, TagSqlserver}

\* the "type" of a descriptor: <<>> when the key is absent, <<tag>> otherwise
DialectInputs ==
    {<<>>} \cup {<< t >> : t \in SupportedDialects \cup {<<"M", "y", "S", "Q", "L">>, <<"s", "q", "l", "i", "t", "e">>, <<"d", "b", "2">>}}

\* Settings.DB_CLIENT_ODBC_DRIVER (line 17)
DB_CLIENT_ODBC_DRIVER == <<"O", "D", "B", "C", " ", "D", "r", "i", "v", "e", "r", " ", "1", "7", " ", "f", "o", "r", " ", "S", "Q", "L", " ", "S", "e", "r", "v", "e", "r">>

\* urllib.parse.quote_plus on one character: letters, digits and _ . - ~ are kept, a
\* space becomes +, any other character becomes % and its two hexadecimal digits
QuoteChar(c) ==
    IF IsWordChar(c) \/ c \in {".", "-", "~"} THEN << c >>
    ELSE IF c = " " THEN << "+" >>
    ELSE IF c = "$" THEN << "%", "2", "4" >>
    ELSE IF c = "@" THEN << "%", "4", "0" >>
    ELSE IF c = ":" THEN << "%", "3", "A" >>
    ELSE IF c = "/" THEN << "%", "2", "F" >>
    ELSE IF c = "+" THEN << "%", "2", "B" >>
    ELSE << "%", "2", "5" >>

quote_plus_Raw(s) == s

RECURSIVE quote_plus(_)
quote_plus(s) == IF s = <<>> THEN <<>> ELSE QuoteChar(Head(s)) \o quote_plus(Tail(s))

\* the characters of the passwords tried; "%" is the last case of QuoteChar
PasswordChars == {"p", "$", "@", " ", "%", ":", "/", "+"}
\* the "password" of a descriptor: <<>> when absent (None), <<text>> otherwise
PasswordInputs == {<<>>} \cup {<< w >> : w \in SeqsUpTo(PasswordChars, MaxPwLen)}

dialect_driver_NoFallback(dialect) ==
    IF dialect = TagMariadb THEN <<"m", "a", "r", "i", "a", "d", "b", "+", "m", "a", "r", "i", "a", "d", "b", "c", "o", "n", "n", "e", "c", "t", "o", "r">>
    ELSE IF dialect = TagMysql THEN <<"m", "y", "s", "q", "l", "+", "m", "y", "s", "q", "l", "c", "o", "n", "n", "e", "c", "t", "o", "r">>
    ELSE IF dialect = TagPostgresql THEN <<"p", "o", "s", "t", "g", "r", "e", "s", "q", "l", "+", "p", "s", "y", "c", "o", "p", "g", "2">>
    ELSE IF dialect = TagOracle THEN <<"o", "r", "a", "c", "l", "e", "+", "o", "r", "a", "c", "l", "e", "d", "b">>
    ELSE IF dialect = TagSqlserver THEN <<"m", "s", "s", "q", "l", "+", "p", "y", "o", "d", "b", "c">>
    ELSE <<>>

\* lines 57-77: the driver scheme of the connection string; a tag that has no branch is
\* used as the scheme itself (the else branch, "Fallback generico")
dialect_driver(dialect) ==
    IF dialect = TagMariadb THEN <<"m", "a", "r", "i", "a", "d", "b", "+", "m", "a", "r", "i", "a", "d", "b", "c", "o", "n", "n", "e", "c", "t", "o", "r">>
    ELSE IF dialect = TagMysql THEN <<"m", "y", "s", "q", "l", "+", "m", "y", "s", "q", "l", "c", "o", "n", "n", "e", "c", "t", "o", "r">>
    ELSE IF dialect = TagPostgresql THEN <<"p", "o", "s", "t", "g", "r", "e", "s", "q", "l", "+", "p", "s", "y", "c", "o", "p", "g", "2">>
    ELSE IF dialect = TagOracle THEN <<"o", "r", "a", "c", "l", "e", "+", "o", "r", "a", "c", "l", "e", "d", "b">>
    ELSE IF dialect = TagSqlserver THEN <<"m", "s", "s", "q", "l", "+", "p", "y", "o", "d", "b", "c">>
    ELSE dialect

\* The connection string, by its parts: scheme "://" user ":" password "@" host ":"
\* port "/" dbname, and "?driver=" driver for sqlserver. No path of the function
\* raises on the dialect.
get_db_url_from_config(config) ==
    LET dialect == Lower(IF config.type = <<>> THEN TagMariadb ELSE config.type[1])
        safe_password == IF config.password # <<>> /\ config.password[1] # <<>>
                         THEN quote_plus(config.password[1]) ELSE <<>>
    IN  [raised |-> FALSE,
         scheme |-> dialect_driver(dialect),
         password |-> safe_password,
         driver |-> IF dialect = TagSqlserver THEN quote_plus(DB_CLIENT_ODBC_DRIVER) ELSE <<>>]

UrlInit ==
    /\ db_config \in [type : DialectInputs, password : PasswordInputs]
    /\ url = NoUrl
    /\ ReportsIdle /\ PipelineIdle /\ ExecIdle /\ GateIdle /\ RaceIdle

\* settings.get_db_url_from_config(db_config)
BuildUrl ==
    /\ url = NoUrl
    /\ url' = get_db_url_from_config(db_config)
    /\ UNCHANGED <<db_config, pipelineVars, gateVars, execVars, reportVars, raceVars>>

UrlNext == BuildUrl

SpecUrl == UrlInit /\ [][UrlNext]_vars

(***************************************************************************)
(* Claims about get_db_url_from_config (checked under SpecUrl)             *)
(***************************************************************************)
\* the function has been applied to db_config
Built == url # NoUrl

\* the dialect tag of db_config as the function reads it: lower-cased, mariadb when
\* the descriptor has no type
DialectTag == Lower(IF db_config.type = <<>> THEN TagMariadb ELSE db_config.type[1])

HexChar(h1, h2) ==
    IF <<h1, h2>> = <<"2", "4">> THEN "$"
    ELSE IF <<h1, h2>> = <<"4", "0">> THEN "@"
    ELSE IF <<h1, h2>> = <<"3", "A">> THEN ":"
    ELSE IF <<h1, h2>> = <<"2", "F">> THEN "/"
    ELSE IF <<h1, h2>> = <<"2", "B">> THEN "+"
    ELSE IF <<h1, h2>> = <<"2", "5">> THEN "%"
    ELSE "?"

RECURSIVE PercentDecode(_)
\* decoding of a percent-encoded text: + is a space, %XX the character of code XX
PercentDecode(s) ==
    IF s = <<>> THEN <<>>
    ELSE IF s[1] = "+" THEN << " " >> \o PercentDecode(Tail(s))
    ELSE IF s[1] = "%" /\ Len(s) >= 3 THEN << HexChar(s[2], s[3]) >> \o PercentDecode(SubSeq(s, 4, Len(s)))
    ELSE << s[1] >> \o PercentDecode(Tail(s))

\* characters that end or split the password position of a connection string
ReservedChars == {"$", "@", ":", "/", " "}

\* the password of db_config as text (empty when the descriptor has none)
GivenPassword == IF db_config.password = <<>> THEN <<>> ELSE db_config.password[1]

\* C24: for each of the five dialects the password part of the connection string is
\* the percent-encoded password: it holds no reserved character ($, @, :, /, space)
\* literally, and decoding it gives back the password of the descriptor.
C24_PasswordEncoded ==
    (Built /\ DialectTag \in SupportedDialects) =>
        /\ \A i \in 1..Len(url.password) : url.password[i] \notin ReservedChars
        /\ PercentDecode(url.password) = GivenPassword

\* the sqlserver connection string of a descriptor whose password is '$@' holds
\* '%24%40' in the password position
C24_Witness ==
    /\ Built
    /\ DialectTag = TagSqlserver
    /\ GivenPassword = << "$", "@" >>
    /\ url.password = << "%", "2", "4", "%", "4", "0" >>

(***************************************************************************)
(* Two pipeline requests in flight (src/main.py lines 107-171)             *)
(*                                                                         *)
(* The handlers are coroutines; each request has its own session           *)
(* (database.py get_db). A handler gives up control at await db.execute    *)
(* and at await db.commit, so between the SELECT of one request and its    *)
(* commit the statements of another request may run. scan_specific_        *)
(* connection and push_schema_to_cloud are plain calls: they run between   *)
(* two await points of their own request.                                  *)
(***************************************************************************)
\* the two requests in flight
Requests == {1, 2}

\* the connection key both requests name
RaceKey == "k1"

\* A request: the handler (op), where it stands (pc: idle, push, commit, done), the row
\* its SELECT loaded (draft: <<>> for None), the table list it is about to store
\* (structure_json: <<s>>), the map push_schema_to_cloud returned (cloud_refs: <<m>>)
\* and the status of its response (0 while in flight).
NoSession ==
    [op |-> "none", pc |-> "idle", draft |-> <<>>, structure_json |-> <<>>,
     cloud_refs |-> <<>>, status |-> 0]

Finished(op, status) == [NoSession EXCEPT !.op = op, !.pc = "done", !.status = status]

\* the drafts a scan of RaceKey may have left in the store
ScannedDrafts ==
    {NewDraft(1, RaceKey, scan_specific_connection(RaceKey, FALSE, colFails).schema_data) :
        colFails \in ColumnFaults(RaceKey, FALSE)}

RaceInit ==
    /\ rows \in {{}} \cup {{d} : d \in ScannedDrafts}
    /\ nextId = Cardinality(rows) + 1
    /\ resp = NoResp
    /\ httpLog = <<>>
    /\ sessions = [h \in Requests |-> NoSession]
    /\ ExecIdle /\ GateIdle /\ ReportsIdle /\ UrlIdle

\* The UPDATE a commit flushes for a loaded row: the unit of work sets the columns
\* whose assigned value differs from the value loaded, WHERE id = the loaded id; the
\* other columns keep what the table holds at that moment.
Flush(current, loaded, assigned) ==
    [c \in DOMAIN current |-> IF assigned[c] # loaded[c] THEN assigned[c] ELSE current[c]]

\* the table after the UPDATE of the row loaded as `loaded`
Updated(rs, loaded, assigned) ==
    {IF r.id = loaded.id THEN Flush(r, loaded, assigned) ELSE r : r \in rs}

\* scan_schema, lines 109-116: the scan, then the SELECT
scan_schema_select ==
    \E h \in Requests, connectFails \in BOOLEAN : \E colFails \in ColumnFaults(RaceKey, connectFails) :
        LET scan == scan_specific_connection(RaceKey, connectFails, colFails)
        IN  /\ sessions[h].pc = "idle"
            /\ sessions' = [sessions EXCEPT ![h] =
                   IF scan.raised THEN Finished("scan", 400)
                   ELSE [NoSession EXCEPT !.op = "scan", !.pc = "commit",
                                          !.draft = scalar_one_or_none(DraftsOf(rows, RaceKey)),
                                          !.structure_json = << scan.schema_data >>]]
    /\ UNCHANGED <<rows, nextId, resp, httpLog, gateVars, execVars, reportVars, urlVars>>

\* scan_schema, lines 118-128: the INSERT or the UPDATE, and the commit. The INSERT of
\* a second row for the key fails (models.py line 61); nothing catches the error and
\* the request ends with status 500.
scan_schema_commit ==
    \E h \in Requests :
        LET s == sessions[h]
        IN  /\ s.op = "scan" /\ s.pc = "commit"
            /\ IF s.draft = <<>>
               THEN IF UniqueViolation(rows, RaceKey)
                    THEN /\ sessions' = [sessions EXCEPT ![h].pc = "done", ![h].status = 500]
                         /\ UNCHANGED <<rows, nextId>>
                    ELSE /\ rows' = rows \cup {NewDraft(nextId, RaceKey, s.structure_json[1])}
                         /\ nextId' = nextId + 1
                         /\ sessions' = [sessions EXCEPT ![h].pc = "done", ![h].status = 200]
               ELSE /\ rows' = Updated(rows, s.draft[1], ScanUpdate(s.draft[1], s.structure_json[1]))
                    /\ UNCHANGED nextId
                    /\ sessions' = [sessions EXCEPT ![h].pc = "done", ![h].status = 200]
    /\ UNCHANGED <<resp, httpLog, gateVars, execVars, reportVars, urlVars>>

\* update_draft, lines 141-144: the SELECT
update_draft_select ==
    \E h \in Requests, structure_json \in EditInputs :
        LET draft == scalar_one_or_none(DraftsOf(rows, RaceKey))
        IN  /\ sessions[h].pc = "idle"
            /\ sessions' = [sessions EXCEPT ![h] =
                   IF draft = <<>> THEN Finished("edit", 404)
                   ELSE [NoSession EXCEPT !.op = "edit", !.pc = "commit", !.draft = draft,
                                          !.structure_json = << structure_json >>]]
    /\ UNCHANGED <<rows, nextId, resp, httpLog, gateVars, execVars, reportVars, urlVars>>

\* update_draft, lines 146-150: the UPDATE and the commit
update_draft_commit ==
    \E h \in Requests :
        LET s == sessions[h]
            draft_data == [structure_json |-> s.structure_json[1], cloud_refs_json |-> <<>>]
        IN  /\ s.op = "edit" /\ s.pc = "commit"
            /\ rows' = Updated(rows, s.draft[1], EditUpdate(s.draft[1], draft_data))
            /\ sessions' = [sessions EXCEPT ![h].pc = "done", ![h].status = 200]
    /\ UNCHANGED <<nextId, resp, httpLog, gateVars, execVars, reportVars, urlVars>>

\* publish_schema, lines 154-157: the SELECT
publish_schema_select ==
    \E h \in Requests :
        LET draft == scalar_one_or_none(DraftsOf(rows, RaceKey))
        IN  /\ sessions[h].pc = "idle"
            /\ sessions' = [sessions EXCEPT ![h] =
                   IF draft = <<>> THEN Finished("publish", 404)
                   ELSE [NoSession EXCEPT !.op = "publish", !.pc = "push", !.draft = draft]]
    /\ UNCHANGED <<rows, nextId, resp, httpLog, gateVars, execVars, reportVars, urlVars>>

\* publish_schema, lines 159-162: push_schema_to_cloud on the table list loaded
publish_schema_push ==
    \E h \in Requests, schemaOutcome \in SchemaOutcomes :
        LET s == sessions[h]
        IN  /\ s.op = "publish" /\ s.pc = "push"
            /\ \E outcomes \in OutcomeLists(s.draft[1].structure_json) :
                 LET push == push_schema_to_cloud(s.draft[1].structure_json, schemaOutcome, outcomes)
                 IN  /\ httpLog' = httpLog \o push.log
                     /\ sessions' = [sessions EXCEPT ![h] =
                            IF push.raised
                            THEN [s EXCEPT !.pc = "done", !.status = 500]
                            ELSE [s EXCEPT !.pc = "commit", !.cloud_refs = << push.cloud_refs >>]]
    /\ UNCHANGED <<rows, nextId, resp, gateVars, execVars, reportVars, urlVars>>

\* publish_schema, lines 163-169: the UPDATE and the commit
publish_schema_commit ==
    \E h \in Requests :
        LET s == sessions[h]
        IN  /\ s.op = "publish" /\ s.pc = "commit"
            /\ rows' = Updated(rows, s.draft[1], PublishUpdate(s.draft[1], s.cloud_refs[1]))
            /\ sessions' = [sessions EXCEPT ![h].pc = "done", ![h].status = 200]
    /\ UNCHANGED <<nextId, resp, httpLog, gateVars, execVars, reportVars, urlVars>>

RaceNext ==
    \/ scan_schema_select
    \/ scan_schema_commit
    \/ update_draft_select
    \/ update_draft_commit
    \/ publish_schema_select
    \/ publish_schema_push
    \/ publish_schema_commit

SpecRace == RaceInit /\ [][RaceNext]_vars

(***************************************************************************)
(* Claims on requests in flight together                                   *)
(***************************************************************************)
\* both requests have their response
BothDone == \A h \in Requests : sessions[h].pc = "done"

\* the table list request h sent to the catalog (publish)
SentToCatalog(h) == sessions[h].draft[1].structure_json

\* C25: once a publish and a concurrent scan or edit of the same connection key have
\* both completed, a draft with is_synced true holds the table list that the publish
\* sent to the catalog.
C25_SyncedOnlyForPublishedDefinitions ==
    \A p, q \in Requests :
        (/\ BothDone
         /\ sessions[p].op = "publish"
         /\ sessions[q].op \in {"scan", "edit"})
        => \A r \in DraftsOf(rows, RaceKey) :
               r.is_synced => /\ sessions[p].status = 200
                              /\ r.structure_json = SentToCatalog(p)

\* C26: once two concurrent scans of the same connection key (each able to read the
\* client database) have completed, the store holds exactly one draft for the key,
\* its table list is the result of one of the two scans, and both requests succeeded.
C26_ConcurrentScansBothSucceed ==
    (/\ BothDone
     /\ \A h \in Requests : sessions[h].op = "scan" /\ sessions[h].status # 400)
    => /\ Cardinality(DraftsOf(rows, RaceKey)) = 1
       /\ \E h \in Requests :
              \A r \in DraftsOf(rows, RaceKey) : r.structure_json = sessions[h].structure_json[1]
       /\ \A h \in Requests : sessions[h].status = 200

(***************************************************************************)
(* Claims on the draft store, one request at a time                        *)
(***************************************************************************)
\* the qualified table names of a table list
TableNames(structure_json) == {structure_json[i].table_name : i \in 1..Len(structure_json)}

\* C27: in every state reached by scan, edit and publish requests executed one at a
\* time, a draft with is_synced true has a cloud reference map whose keys are exactly
\* the qualified table names of its stored table list; in particular, after a
\* successful publish the map keeps no entry of an earlier publish for a table that
\* the published draft does not list.
C27_SyncedMapCoversStoredTables ==
    \A r \in rows :
        r.is_synced => /\ r.cloud_refs_json # <<>>
                       /\ DOMAIN r.cloud_refs_json[1] = TableNames(r.structure_json)

\* a successful publish of k1 whose draft lists d1.a only (the scan skipped d1.b),
\* with the id the catalog gives when it creates the table again
C27_Witness ==
    /\ resp.op = "publish" /\ resp.status = 200 /\ resp.key = "k1"
    /\ \E r \in rows :
         /\ r.connection_key = "k1"
         /\ r.is_synced
         /\ TableNames(r.structure_json) = {<<"d1", "a">>}
         /\ r.cloud_refs_json = << [x \in {<<"d1", "a">>} |-> 2] >>

\* the store holds no draft for connection key k
NoDraftFor(k) == \A r \in rows : r.connection_key # k

\* C28: a get, edit or publish request for a connection key that has no draft
\* answers 404 and has no effect: the store is unchanged and no request is sent to
\* the remote catalog.
C28_NoDraftNotFound ==
    [][(resp'.op \in {"get", "edit", "publish"} /\ NoDraftFor(resp'.key))
        => /\ resp'.status = 404
           /\ rows' = rows
           /\ nextId' = nextId
           /\ httpLog' = <<>>]_vars

\* a publish of k2 answered 404 while the store holds a draft of k1 only
C28_Witness ==
    /\ resp.op = "publish" /\ resp.key = "k2" /\ resp.status = 404
    /\ httpLog = <<>>
    /\ NoDraftFor("k2")
    /\ ~NoDraftFor("k1")

\* C29: a scan request that fails because the connection key is unknown or because
\* connecting to the client database (or listing its tables) fails answers 400 and
\* leaves the draft store unchanged: no draft is created and an existing draft keeps
\* its table list, is_synced and cloud reference map.
C29_FailedScanLeavesStore ==
    [][(resp'.op = "scan" /\ (resp'.key \notin ConfiguredKeys \/ resp'.faults.connectFails))
        => /\ resp'.status = 400
           /\ rows' = rows
           /\ nextId' = nextId]_vars

\* a scan of k1 that could not connect, answered 400, while the published draft of k1
\* is still synced with its map
C29_Witness ==
    /\ resp.op = "scan" /\ resp.key = "k1" /\ resp.status = 400
    /\ resp.faults.connectFails
    /\ \E r \in rows :
         /\ r.connection_key = "k1"
         /\ r.is_synced
         /\ r.cloud_refs_json # <<>>
         /\ Len(r.structure_json) = 2

====
